---- MODULE Spec2Model ----
(***************************************************************************)
(* A model of scripts/utils/preprocessing.py: one_hot_encoding,            *)
(* XGBFeatureSelection.feature_importances_, _sanitize_holiday_name and    *)
(* process_holidays.                                                       *)
(*                                                                         *)
(* Text is modelled as a sequence of characters, each character a string   *)
(* token: "a", "Z", "7", " ", "'" ... for ASCII, and "u00C9", "u00E9",     *)
(* "u65E5", "u00B2" for the code points U+00C9 (E acute, upper case),      *)
(* U+00E9 (e acute, lower case), U+65E5 (a CJK letter, no case) and U+00B2 *)
(* (superscript two).                                                      *)
(***************************************************************************)
EXTENDS Integers, Sequences, FiniteSets, TLC

VARIABLES
    \* _sanitize_holiday_name
    name, new_name, sanPc,
    \* process_holidays
    df, user_date, holidays_dates, holTodo, holPc, holCalls, dfAtCall,
    \* XGBFeatureSelection
    n_features, fscores, fitted, importances, xgbTodo, xgbPc, nDeclared,
    \* one_hot_encoding
    pandasBuild, input, categorical_features, callerData, data, aliased,
    feature_i, ohePc

sanVars == <<name, new_name, sanPc>>
holVars == <<df, user_date, holidays_dates, holTodo, holPc, holCalls, dfAtCall>>
xgbVars == <<n_features, fscores, fitted, importances, xgbTodo, xgbPc, nDeclared>>
oheVars == <<pandasBuild, input, categorical_features, callerData, data,
             aliased, feature_i, ohePc>>
vars == <<sanVars, holVars, xgbVars, oheVars>>
notSanVars == <<holVars, xgbVars, oheVars>>
notHolVars == <<sanVars, xgbVars, oheVars>>
notXgbVars == <<sanVars, holVars, oheVars>>
notOheVars == <<sanVars, holVars, xgbVars>>

(***************************************************************************)
(* Bounds of the model.                                                    *)
(***************************************************************************)
MaxNameLen == 3
MaxCalls == 2
MaxScore == 2
MaxRows == 2
MaxFeatures == 3

(***************************************************************************)
(* Characters: str.isalpha, str.isdigit, str.lower.                        *)
(***************************************************************************)
AlphaLower == <<"a", "b", "c", "d", "e", "f", "g", "h", "i", "j", "k", "l", "m",
                "n", "o", "p", "q", "r", "s", "t", "u", "v", "w", "x", "y", "z">>
AlphaUpper == <<"A", "B", "C", "D", "E", "F", "G", "H", "I", "J", "K", "L", "M",
                "N", "O", "P", "Q", "R", "S", "T", "U", "V", "W", "X", "Y", "Z">>
DecDigits == <<"0", "1", "2", "3", "4", "5", "6", "7", "8", "9">>

Range(s) == {s[i] : i \in 1..Len(s)}

LowerAscii == Range(AlphaLower)
UpperAscii == Range(AlphaUpper)
DigitAscii == Range(DecDigits)
AsciiOther == {" ", "'", ",", ".", "(", ")", "_", "-"}
Ascii == LowerAscii \cup UpperAscii \cup DigitAscii \cup AsciiOther

\* c.isalpha(): the ASCII letters and, in a unicode string, every other letter.
IsAlpha(c) == c \in LowerAscii \cup UpperAscii \cup {"u00C9", "u00E9", "u65E5"}

\* c.isdigit(): the decimal digits and, in a unicode string, the digit
\* characters such as superscript two.
IsDigit(c) == c \in DigitAscii \cup {"u00B2"}

IndexOf(s, c) == CHOOSE i \in 1..Len(s) : s[i] = c

\* c.lower(): the lower-case mapping of one character; a character with no
\* mapping is kept.
LowerChar(c) ==
    IF c \in UpperAscii THEN AlphaLower[IndexOf(AlphaUpper, c)]
    ELSE IF c = "u00C9" THEN "u00E9"
    ELSE c

\* line 75: [c for c in name if c.isalpha() or c.isdigit() or c == ' ']
KeptChar(c) == IsAlpha(c) \/ IsDigit(c) \/ c = " "

\* a variant that also trims a leading space
FilterNameTrimmed(s) ==
    IF SelectSeq(s, KeptChar) # <<>> /\ Head(SelectSeq(s, KeptChar)) = " "
    THEN Tail(SelectSeq(s, KeptChar))
    ELSE SelectSeq(s, KeptChar)

FilterName(s) == SelectSeq(s, KeptChar)

\* a variant without .lower()
LowerStrOmitted(s) == s

\* "".join(new_name).lower()
LowerStr(s) == [i \in 1..Len(s) |-> LowerChar(s[i])]

ReplaceSpaceChar(c) == IF c = " " THEN "_" ELSE c

\* .replace(" ", "_")
ReplaceSpaces(s) == [i \in 1..Len(s) |-> ReplaceSpaceChar(s[i])]

\* line 76
JoinLowerReplace(s) == ReplaceSpaces(LowerStr(s))

\* _sanitize_holiday_name(name)
SanitizeHolidayName(s) == JoinLowerReplace(FilterName(s))

(***************************************************************************)
(* _sanitize_holiday_name as a two-step machine over every name of at most *)
(* MaxNameLen characters drawn from SampleChars.                           *)
(***************************************************************************)
SampleChars == {"a", "Z", "7", " ", "'", "_", "u00C9", "u65E5", "u00B2"}

SeqsUpTo(S, n) == UNION {[1..k -> S] : k \in 0..n}

SanIdle ==
    /\ name = <<>>
    /\ new_name = <<>>
    /\ sanPc = "idle"

SanInit ==
    /\ name \in SeqsUpTo(SampleChars, MaxNameLen)
    /\ new_name = <<>>
    /\ sanPc = "called"

\* line 75
SanFilter ==
    /\ sanPc = "called"
    /\ new_name' = FilterName(name)
    /\ sanPc' = "filtered"
    /\ UNCHANGED name
    /\ UNCHANGED notSanVars

\* lines 76-77
SanJoin ==
    /\ sanPc = "filtered"
    /\ new_name' = JoinLowerReplace(new_name)
    /\ sanPc' = "returned"
    /\ UNCHANGED name
    /\ UNCHANGED notSanVars

(***************************************************************************)
(* datetime.date: a date is <<year, month, day>>; subtraction goes through *)
(* the proleptic Gregorian ordinal (1 for 0001-01-01).                     *)
(***************************************************************************)
IsLeap(y) == (y % 4 = 0) /\ ((y % 100 # 0) \/ (y % 400 = 0))

DaysInMonth(y, m) ==
    IF m = 2 THEN (IF IsLeap(y) THEN 29 ELSE 28)
    ELSE IF m \in {4, 6, 9, 11} THEN 30 ELSE 31

\* date(year, month, day) raises ValueError unless this holds
ValidDate(y, m, d) ==
    /\ y \in 1..9999
    /\ m \in 1..12
    /\ d \in 1..DaysInMonth(y, m)

DaysBeforeYear(y) ==
    (y - 1) * 365 + ((y - 1) \div 4) - ((y - 1) \div 100) + ((y - 1) \div 400)

RECURSIVE DaysBeforeMonth(_, _)
DaysBeforeMonth(y, m) ==
    IF m = 1 THEN 0 ELSE DaysBeforeMonth(y, m - 1) + DaysInMonth(y, m - 1)

Ordinal(dt) == DaysBeforeYear(dt[1]) + DaysBeforeMonth(dt[1], dt[2]) + dt[3]

\* date.fromordinal, for the years around y
FromOrdinal(n, y) ==
    CHOOSE dt \in {y - 1, y, y + 1} \X (1..12) \X (1..31) :
        ValidDate(dt[1], dt[2], dt[3]) /\ Ordinal(dt) = n

\* date.weekday(): Monday is 0
Weekday(dt) == (Ordinal(dt) + 6) % 7

\* date + rd(days=k)
PlusDays(dt, k) == FromOrdinal(Ordinal(dt) + k, dt[1])

\* a variant with the operands exchanged
DaysBetweenReversed(holiday_date, user) == Ordinal(user) - Ordinal(holiday_date)

\* (holiday_date - user_date).days, line 105
DaysBetween(holiday_date, user) == Ordinal(holiday_date) - Ordinal(user)

\* date(y, m, 1) + rd(weekday=WD(+n)): the n-th given weekday of the month
NthWeekday(y, m, wd, n) ==
    PlusDays(<<y, m, 1>>, ((wd - Weekday(<<y, m, 1>>) + 7) % 7) + 7 * (n - 1))

\* date(y, m, last) + rd(weekday=WD(-1)): the last given weekday of the month
LastWeekday(y, m, wd) ==
    PlusDays(<<y, m, DaysInMonth(y, m)>>,
             0 - ((Weekday(<<y, m, DaysInMonth(y, m)>>) - wd + 7) % 7))

(***************************************************************************)
(* holidays.US(years=year): the federal holidays of the year with their    *)
(* observed days, a dict from date to name filled in by assignments.       *)
(***************************************************************************)
NewYearsDay == <<"N", "e", "w", " ", "Y", "e", "a", "r", "'", "s", " ", "D", "a", "y">>
ObservedSuffix == <<" ", "(", "O", "b", "s", "e", "r", "v", "e", "d", ")">>
MartinLutherKingDay == <<"M", "a", "r", "t", "i", "n", " ", "L", "u", "t", "h", "e", "r", " ", "K", "i", "n", "g", ",", " ", "J", "r", ".", " ", "D", "a", "y">>
WashingtonsBirthday == <<"W", "a", "s", "h", "i", "n", "g", "t", "o", "n", "'", "s", " ", "B", "i", "r", "t", "h", "d", "a", "y">>
MemorialDay == <<"M", "e", "m", "o", "r", "i", "a", "l", " ", "D", "a", "y">>
IndependenceDay == <<"I", "n", "d", "e", "p", "e", "n", "d", "e", "n", "c", "e", " ", "D", "a", "y">>
LaborDay == <<"L", "a", "b", "o", "r", " ", "D", "a", "y">>
ColumbusDay == <<"C", "o", "l", "u", "m", "b", "u", "s", " ", "D", "a", "y">>
VeteransDay == <<"V", "e", "t", "e", "r", "a", "n", "s", " ", "D", "a", "y">>
Thanksgiving == <<"T", "h", "a", "n", "k", "s", "g", "i", "v", "i", "n", "g">>
ChristmasDay == <<"C", "h", "r", "i", "s", "t", "m", "a", "s", " ", "D", "a", "y">>

\* d[k] = v on a dict
DictSet(d, k, v) == [x \in DOMAIN d \cup {k} |-> IF x = k THEN v ELSE d[x]]

EmptyDict == [x \in {} |-> 0]

RECURSIVE DictSetAll(_, _)
DictSetAll(d, entries) ==
    IF entries = <<>> THEN d
    ELSE DictSetAll(DictSet(d, Head(entries)[1], Head(entries)[2]), Tail(entries))

\* a holiday on a fixed day, observed on the Friday before a Saturday and on
\* the Monday after a Sunday
FixedWithObserved(dt, nm) ==
    <<<<dt, nm>>>> \o
    (IF Weekday(dt) = 5 THEN <<<<PlusDays(dt, -1), nm \o ObservedSuffix>>>>
     ELSE IF Weekday(dt) = 6 THEN <<<<PlusDays(dt, 1), nm \o ObservedSuffix>>>>
     ELSE <<>>)

\* New Year's Day of the next year is observed in this year when December 31
\* is a Friday
NextNewYearObserved(y) ==
    IF Weekday(<<y, 12, 31>>) = 4
    THEN <<<<(<<y, 12, 31>>), NewYearsDay \o ObservedSuffix>>>>
    ELSE <<>>

USHolidays(y) ==
    DictSetAll(EmptyDict,
        FixedWithObserved(<<y, 1, 1>>, NewYearsDay)
        \o NextNewYearObserved(y)
        \o <<<<NthWeekday(y, 1, 0, 3), MartinLutherKingDay>>>>
        \o <<<<NthWeekday(y, 2, 0, 3), WashingtonsBirthday>>>>
        \o <<<<LastWeekday(y, 5, 0), MemorialDay>>>>
        \o FixedWithObserved(<<y, 7, 4>>, IndependenceDay)
        \o <<<<NthWeekday(y, 9, 0, 1), LaborDay>>>>
        \o <<<<NthWeekday(y, 10, 0, 2), ColumbusDay>>>>
        \o FixedWithObserved(<<y, 11, 11>>, VeteransDay)
        \o <<<<NthWeekday(y, 11, 3, 4), Thanksgiving>>>>
        \o FixedWithObserved(<<y, 12, 25>>, ChristmasDay))

(***************************************************************************)
(* process_holidays(df): df is one record, a mapping from column name to   *)
(* value.  The call can be repeated on the record it returned.             *)
(***************************************************************************)
DaysToPrefix == <<"d", "a", "y", "s", "_", "t", "o", "_">>
YearCreated == <<"y", "e", "a", "r", "_", "a", "c", "c", "o", "u", "n", "t", "_", "c", "r", "e", "a", "t", "e", "d">>
MonthCreated == <<"m", "o", "n", "t", "h", "_", "a", "c", "c", "o", "u", "n", "t", "_", "c", "r", "e", "a", "t", "e", "d">>
DayCreated == <<"d", "a", "y", "_", "a", "c", "c", "o", "u", "n", "t", "_", "c", "r", "e", "a", "t", "e", "d">>

\* a variant that leaves the name out of the column
HolidayColumnUnnamed(nm) == DaysToPrefix

\* 'days_to_' + name, line 111
HolidayColumn(nm) == DaysToPrefix \o nm

\* The records the model draws from: account years, months and days, with
\* days that do not exist in the month.
SampleYears == {2011, 2015}
SampleMonths == {1, 2, 12}
SampleDays == {1, 30}

NoDate == <<0, 0, 0>>

HolIdle ==
    /\ df = EmptyDict
    /\ user_date = NoDate
    /\ holidays_dates = EmptyDict
    /\ holTodo = {}
    /\ holPc = "idle"
    /\ holCalls = 0
    /\ dfAtCall = EmptyDict

HolInit ==
    /\ \E y \in SampleYears, m \in SampleMonths, d \in SampleDays :
          df = DictSetAll(EmptyDict,
                          <<<<YearCreated, y>>, <<MonthCreated, m>>, <<DayCreated, d>>>>)
    /\ user_date = NoDate
    /\ holidays_dates = EmptyDict
    /\ holTodo = {}
    /\ holPc = "ready"
    /\ holCalls = 0
    /\ dfAtCall = EmptyDict

\* lines 94-101: the date object and the calendar of its year
HolCall ==
    /\ holPc \in {"ready", "returned"}
    /\ holCalls < MaxCalls
    /\ holCalls' = holCalls + 1
    /\ dfAtCall' = df
    /\ IF ValidDate(df[YearCreated], df[MonthCreated], df[DayCreated])
       THEN /\ user_date' = <<df[YearCreated], df[MonthCreated], df[DayCreated]>>
            /\ holidays_dates' = USHolidays(df[YearCreated])
            /\ holTodo' = DOMAIN holidays_dates'
            /\ holPc' = "loop"
       ELSE /\ holPc' = "raised"
            /\ UNCHANGED <<user_date, holidays_dates, holTodo>>
    /\ UNCHANGED df
    /\ UNCHANGED notHolVars

\* lines 103-111: one iteration, over the dict's items in the dict's order
HolLoop ==
    /\ holPc = "loop"
    /\ \E holiday_date \in holTodo :
          /\ df' = DictSet(df,
                           HolidayColumn(SanitizeHolidayName(holidays_dates[holiday_date])),
                           DaysBetween(holiday_date, user_date))
          /\ holTodo' = holTodo \ {holiday_date}
    /\ UNCHANGED <<user_date, holidays_dates, holPc, holCalls, dfAtCall>>
    /\ UNCHANGED notHolVars

\* line 113
HolReturn ==
    /\ holPc = "loop"
    /\ holTodo = {}
    /\ holPc' = "returned"
    /\ UNCHANGED <<df, user_date, holidays_dates, holTodo, holCalls, dfAtCall>>
    /\ UNCHANGED notHolVars

(***************************************************************************)
(* XGBFeatureSelection: the declared feature count, the booster's fscore   *)
(* dict (keys 'f<index>', the names the booster gives unnamed features)    *)
(* and the feature_importances_ property.                                  *)
(***************************************************************************)
RECURSIVE IntToStr(_)
\* str(i) of a natural number
IntToStr(i) ==
    IF i < 10 THEN <<DecDigits[i + 1]>>
    ELSE IntToStr(i \div 10) \o <<DecDigits[(i % 10) + 1]>>

RECURSIVE ParseInt(_)
\* int(s) of a string of decimal digits
ParseInt(s) ==
    IF Len(s) = 1 THEN IndexOf(DecDigits, s[1]) - 1
    ELSE ParseInt(SubSeq(s, 1, Len(s) - 1)) * 10 + (IndexOf(DecDigits, s[Len(s)]) - 1)

\* the booster's name of feature i
FeatureKey(i) == <<"f">> \o IntToStr(i)

\* a variant that is off by one
FeatureIndexShifted(k) == ParseInt(Tail(k)) + 1

\* int(k[1:]), line 69
FeatureIndex(k) == ParseInt(Tail(k))

\* np.zeros(n)
Zeros(n) == [i \in 1..n |-> 0]

\* The feature counts and the feature indices the model draws from.
SampleCounts == {0, 1, 2, 3, 12}
SampleIndices == {0, 1, 2, 11}

\* every fscore dict over the sampled features: a feature used in no split
\* has no key
FscoreDicts ==
    UNION {[{FeatureKey(i) : i \in used} -> 1..MaxScore] : used \in SUBSET SampleIndices}

XgbInit ==
    /\ n_features \in SampleCounts
    /\ nDeclared = n_features
    /\ fscores = EmptyDict
    /\ fitted = FALSE
    /\ importances = <<>>
    /\ xgbTodo = {}
    /\ xgbPc = "idle"

XgbBetweenCalls == xgbPc \in {"idle", "returned", "raised"}

\* fit(): the booster and its split counts
XgbFit ==
    /\ XgbBetweenCalls
    /\ fitted' = TRUE
    /\ fscores' \in FscoreDicts
    /\ importances' = <<>>
    /\ xgbPc' = "idle"
    /\ UNCHANGED <<n_features, xgbTodo, nDeclared>>
    /\ UNCHANGED notXgbVars

\* lines 51-53
XgbSetNFeatures ==
    /\ XgbBetweenCalls
    /\ n_features' \in SampleCounts
    /\ importances' = <<>>
    /\ xgbPc' = "idle"
    /\ UNCHANGED <<fscores, fitted, xgbTodo, nDeclared>>
    /\ UNCHANGED notXgbVars

\* lines 63-66: booster() raises on a model that was not fitted
XgbImportancesCall ==
    /\ XgbBetweenCalls
    /\ IF fitted
       THEN /\ importances' = Zeros(n_features)
            /\ xgbTodo' = DOMAIN fscores
            /\ xgbPc' = "loop"
       ELSE /\ importances' = <<>>
            /\ xgbTodo' = {}
            /\ xgbPc' = "raised"
    /\ UNCHANGED <<n_features, fscores, fitted, nDeclared>>
    /\ UNCHANGED notXgbVars

\* lines 68-69: one item of the dict; an index outside the array raises
XgbImportancesLoop ==
    /\ xgbPc = "loop"
    /\ \E k \in xgbTodo :
          IF FeatureIndex(k) < Len(importances)
          THEN /\ importances' = [importances EXCEPT ![FeatureIndex(k) + 1] = fscores[k]]
               /\ xgbTodo' = xgbTodo \ {k}
               /\ xgbPc' = "loop"
          ELSE /\ importances' = <<>>
               /\ xgbTodo' = {}
               /\ xgbPc' = "raised"
    /\ UNCHANGED <<n_features, fscores, fitted, nDeclared>>
    /\ UNCHANGED notXgbVars

\* line 71
XgbImportancesReturn ==
    /\ xgbPc = "loop"
    /\ xgbTodo = {}
    /\ xgbPc' = "returned"
    /\ UNCHANGED <<n_features, fscores, fitted, importances, xgbTodo, nDeclared>>
    /\ UNCHANGED notXgbVars

XgbIdle ==
    /\ n_features = 0
    /\ fscores = EmptyDict
    /\ fitted = FALSE
    /\ importances = <<>>
    /\ xgbTodo = {}
    /\ xgbPc = "idle"
    /\ nDeclared = 0

(***************************************************************************)
(* one_hot_encoding(data, categorical_features).                           *)
(*                                                                         *)
(* A table is its number of rows and the sequence of its columns; a column *)
(* is its name, its values by row, its dtype and the loop iteration that   *)
(* made it (0 for a column of the input; the code does not read this).     *)
(* A value is a string, a number or missing (NaN).                         *)
(*                                                                         *)
(* pandasBuild is the pandas the code runs on, in what this code can see   *)
(* of it: indicator columns are float64 or integer, and get_dummies on a   *)
(* selection of several columns of the same name raises or encodes each    *)
(* object column of the selection.                                         *)
(***************************************************************************)
StrVal(s) == [kind |-> "str", s |-> s, n |-> 0]

NumVal(n) == [kind |-> "num", s |-> <<>>, n |-> n]

NaN == [kind |-> "nan", s |-> <<>>, n |-> 0]

Column(nm, vals, dt, it) == [name |-> nm, values |-> vals, dtype |-> dt, iter |-> it]

EmptyTable == [nrows |-> 0, cols |-> <<>>]

ColumnNames(t) == {t.cols[k].name : k \in 1..Len(t.cols)}

PandasBuilds == {"float_raises", "int_raises", "int_encodes"}

\* data[feature]: the columns of that name; none is a KeyError
GetItem(t, feature) == SelectSeq(t.cols, LAMBDA c : c.name = feature)

\* a variant that never raises KeyError
KeyMissingIgnored(t, feature) == FALSE

KeyMissing(t, feature) == feature \notin ColumnNames(t)

\* the order of characters and of strings
AsciiOrder == <<".">> \o DecDigits \o AlphaUpper \o <<"_">> \o AlphaLower

RECURSIVE StrLess(_, _)
StrLess(a, b) ==
    IF b = <<>> THEN FALSE
    ELSE IF a = <<>> THEN TRUE
    ELSE IF Head(a) # Head(b) THEN IndexOf(AsciiOrder, Head(a)) < IndexOf(AsciiOrder, Head(b))
    ELSE StrLess(Tail(a), Tail(b))

ValueLess(a, b) == IF a.kind = "num" THEN a.n < b.n ELSE StrLess(a.s, b.s)

RECURSIVE SortValues(_)
SortValues(S) ==
    IF S = {} THEN <<>>
    ELSE LET m == CHOOSE x \in S : \A y \in S : ~ValueLess(y, x)
         IN <<m>> \o SortValues(S \ {m})

\* the categories of a column: its distinct values that are not missing, sorted
Levels(col) == SortValues({col.values[r] : r \in 1..Len(col.values)} \ {NaN})

\* '%s' % v for a category
FormatValue(v) ==
    IF v.kind = "str" THEN v.s
    ELSE IF pandasBuild = "float_raises" THEN IntToStr(v.n) \o <<".", "0">>
    ELSE IntToStr(v.n)

\* a variant with an indicator column for the missing value as well
GetDummies1dWithNaN(col, prefix, it) ==
    LET lv == SortValues({col.values[r] : r \in 1..Len(col.values)})
    IN [k \in 1..Len(lv) |->
           Column(prefix \o <<"_">> \o (IF lv[k] = NaN THEN <<"n", "a", "n">> ELSE FormatValue(lv[k])),
                  [r \in 1..Len(col.values) |->
                      NumVal(IF col.values[r] = lv[k] THEN 1 ELSE 0)],
                  "number", it)]

\* get_dummies of one column: an indicator column per category, named
\* <prefix>_<category>, 1 in the rows that hold the category; a row with a
\* missing value has 0 in all of them
GetDummies1d(col, prefix, it) ==
    LET lv == Levels(col)
    IN [k \in 1..Len(lv) |->
           Column(prefix \o <<"_">> \o FormatValue(lv[k]),
                  [r \in 1..Len(col.values) |->
                      NumVal(IF col.values[r] = lv[k] THEN 1 ELSE 0)],
                  "number", it)]

RECURSIVE EncodeObjectColumns(_, _, _)
EncodeObjectColumns(sel, prefix, it) ==
    IF sel = <<>> THEN <<>>
    ELSE (IF Head(sel).dtype = "object" THEN GetDummies1d(Head(sel), prefix, it) ELSE <<>>)
         \o EncodeObjectColumns(Tail(sel), prefix, it)

\* get_dummies of a frame: the columns that are not of object dtype, kept,
\* then the indicator columns of each object column
GetDummiesFrame(sel, prefix, it) ==
    SelectSeq(sel, LAMBDA c : c.dtype # "object") \o EncodeObjectColumns(sel, prefix, it)

\* pd.get_dummies(data[feature], prefix=feature), line 26
GetDummies(sel, prefix, it) ==
    IF Len(sel) = 1 THEN GetDummies1d(sel[1], prefix, it)
    ELSE GetDummiesFrame(sel, prefix, it)

\* whether get_dummies raises on the selection
FrameSelectionRaises(sel) == Len(sel) > 1 /\ pandasBuild # "int_encodes"

\* a variant that keeps the column
DropColumnsOmitted(t, feature) == t

\* a variant that drops every column whose name starts with the feature's
DropColumnsByPrefix(t, feature) ==
    [t EXCEPT !.cols = SelectSeq(t.cols,
        LAMBDA c : ~(Len(c.name) >= Len(feature) /\ SubSeq(c.name, 1, Len(feature)) = feature))]

\* data.drop([feature], axis=1): every column of that name
DropColumns(t, feature) ==
    [t EXCEPT !.cols = SelectSeq(t.cols, LAMBDA c : c.name # feature)]

\* a variant in which every iteration drops from the caller's table
DropInPlaceAlways(caller, isCallers, feature) == DropColumns(caller, feature)

\* inplace=True, line 27: the drop changes the caller's table while `data`
\* is still the caller's object
DropInPlace(caller, isCallers, feature) ==
    IF isCallers THEN DropColumns(caller, feature) ELSE caller

\* pd.concat((data, data_dummy), axis=1), line 28: a new table
Concat(t, dummy) == [t EXCEPT !.cols = t.cols \o dummy]

\* The tables and lists the model draws from: columns a, a_x and b, each
\* present or not, of up to MaxRows rows; lists of up to MaxFeatures names
\* among a and a_x (b is never listed; a_x is also the indicator of a = x).
NameA == <<"a">>
NameAX == <<"a", "_", "x">>
NameB == <<"b">>
ValX == StrVal(<<"x">>)
ValY == StrVal(<<"y">>)

SampleValues(nm) ==
    IF nm = NameA THEN {ValX, ValY, NaN}
    ELSE IF nm = NameAX THEN {ValX, NaN}
    ELSE {ValX, ValY}

ColumnChoices(nm, n) ==
    {<<>>} \cup {<<Column(nm, v, "object", 0)>> : v \in [1..n -> SampleValues(nm)]}

OheInit ==
    /\ pandasBuild \in PandasBuilds
    /\ \E n \in 0..MaxRows :
          \E ca \in ColumnChoices(NameA, n), cx \in ColumnChoices(NameAX, n),
             cb \in ColumnChoices(NameB, n) :
                input = [nrows |-> n, cols |-> ca \o cx \o cb]
    /\ categorical_features \in SeqsUpTo({NameA, NameAX}, MaxFeatures)
    /\ callerData = input
    /\ data = input
    /\ aliased = TRUE
    /\ feature_i = 0
    /\ ohePc = "loop"

\* lines 25-28: one iteration
OheIterate ==
    /\ ohePc = "loop"
    /\ feature_i < Len(categorical_features)
    /\ LET feature == categorical_features[feature_i + 1]
           sel == GetItem(data, feature)
       IN IF KeyMissing(data, feature) \/ FrameSelectionRaises(sel)
          THEN /\ ohePc' = "raised"
               /\ UNCHANGED <<callerData, data, aliased, feature_i>>
          ELSE /\ callerData' = DropInPlace(callerData, aliased, feature)
               /\ data' = Concat(DropColumns(data, feature),
                                 GetDummies(sel, feature, feature_i + 1))
               /\ aliased' = FALSE
               /\ feature_i' = feature_i + 1
               /\ ohePc' = "loop"
    /\ UNCHANGED <<pandasBuild, input, categorical_features>>
    /\ UNCHANGED notOheVars

\* line 30
OheReturn ==
    /\ ohePc = "loop"
    /\ feature_i = Len(categorical_features)
    /\ ohePc' = "returned"
    /\ UNCHANGED <<pandasBuild, input, categorical_features, callerData, data,
                   aliased, feature_i>>
    /\ UNCHANGED notOheVars

OheIdle ==
    /\ pandasBuild = "none"
    /\ input = EmptyTable
    /\ categorical_features = <<>>
    /\ callerData = EmptyTable
    /\ data = EmptyTable
    /\ aliased = TRUE
    /\ feature_i = 0
    /\ ohePc = "idle"

SanNext == SanFilter \/ SanJoin

InitSanitize == SanInit /\ HolIdle /\ XgbIdle /\ OheIdle

SpecSanitize == InitSanitize /\ [][SanNext]_vars

HolNext == HolCall \/ HolLoop \/ HolReturn

InitHolidays == HolInit /\ SanIdle /\ XgbIdle /\ OheIdle

SpecHolidays == InitHolidays /\ [][HolNext]_vars

XgbNext ==
    XgbFit \/ XgbSetNFeatures \/ XgbImportancesCall \/ XgbImportancesLoop
        \/ XgbImportancesReturn

InitXgb == XgbInit /\ SanIdle /\ HolIdle /\ OheIdle

SpecXgb == InitXgb /\ [][XgbNext]_vars
OheNext == OheIterate \/ OheReturn

InitOneHot == OheInit /\ SanIdle /\ HolIdle /\ XgbIdle

SpecOneHot == InitOneHot /\ [][OheNext]_vars

(***************************************************************************)
(* _sanitize_holiday_name: properties.                                     *)
(***************************************************************************)
UpperLetters == UpperAscii \cup {"u00C9"}
LowerLetters == LowerAscii \cup {"u00E9"}
DigitChars == DigitAscii \cup {"u00B2"}

\* C6, as stated: for every name the sanitized name contains only lower-case
\* letters, digits and underscores.
C6_OnlyLowerDigitsUnderscore ==
    sanPc = "returned" =>
        Range(new_name) \subseteq LowerLetters \cup DigitChars \cup {"_"}

\* C6, amended: the sanitized name contains only underscores, characters that
\* isdigit accepts and letters that are not upper case (lower-case letters and
\* letters without case), and for a name of ASCII characters only a-z, 0-9
\* and the underscore.
C6_SanitizedAlphabet ==
    sanPc = "returned" =>
        /\ \A i \in 1..Len(new_name) :
              \/ new_name[i] = "_"
              \/ IsDigit(new_name[i])
              \/ IsAlpha(new_name[i]) /\ new_name[i] \notin UpperLetters
        /\ Range(name) \subseteq Ascii =>
              Range(new_name) \subseteq LowerAscii \cup DigitAscii \cup {"_"}

C6_Witness ==
    /\ sanPc = "returned"
    /\ name = <<"Z", " ", "'">>
    /\ new_name = <<"z", "_">>

\* the positions of the name whose character is a letter, a digit or a space
KeptPositions == {i \in 1..Len(name) : IsAlpha(name[i]) \/ IsDigit(name[i]) \/ name[i] = " "}

\* the k-th of them
KeptPosition(k) ==
    CHOOSE i \in KeptPositions : Cardinality({j \in KeptPositions : j < i}) = k - 1

\* C7: the sanitized name is as long as the name has letters, digits and
\* spaces; its k-th character is an underscore exactly when the k-th of these
\* is a space, and is otherwise that character in lower case: nothing is
\* collapsed or trimmed.
C7_DirectReplacement ==
    sanPc = "returned" =>
        /\ Len(new_name) = Cardinality(KeptPositions)
        /\ \A k \in 1..Len(new_name) :
              /\ new_name[k] = "_" <=> name[KeptPosition(k)] = " "
              /\ name[KeptPosition(k)] # " " => new_name[k] = LowerChar(name[KeptPosition(k)])

C7_Witness ==
    /\ sanPc = "returned"
    /\ name = <<" ", " ", "Z">>
    /\ new_name = <<"_", "_", "z">>

(***************************************************************************)
(* process_holidays: properties.                                           *)
(***************************************************************************)
NewColumns == DOMAIN df \ DOMAIN dfAtCall

IsDaysToColumn(c) == Len(c) >= Len(DaysToPrefix) /\ SubSeq(c, 1, Len(DaysToPrefix)) = DaysToPrefix

\* C8, as stated: the number of columns a call adds equals the number of
\* holidays of the year's calendar.
C8_NewColumnsEqualHolidays ==
    holPc = "returned" => Cardinality(NewColumns) = Cardinality(DOMAIN holidays_dates)

\* C8, amended: on a record that holds no days_to_ column yet the number of
\* columns a call adds equals the number of holidays of the year's calendar;
\* a call on the record an earlier call returned overwrites the columns and
\* adds none.
C8_NewColumnsOnFreshRecord ==
    holPc = "returned" =>
        /\ (\A c \in DOMAIN dfAtCall : ~IsDaysToColumn(c)) =>
              Cardinality(NewColumns) = Cardinality(DOMAIN holidays_dates)
        /\ holCalls >= 2 => NewColumns = {}

C8_Witness ==
    /\ holPc = "returned"
    /\ holCalls = 1
    /\ Cardinality(DOMAIN holidays_dates) = 12
    /\ Cardinality(NewColumns) = 12

\* the order of dates, by year, month and day
DateBefore(a, b) ==
    \/ a[1] < b[1]
    \/ a[1] = b[1] /\ a[2] < b[2]
    \/ a[1] = b[1] /\ a[2] = b[2] /\ a[3] < b[3]

DaysToNewYearsDay == <<"d", "a", "y", "s", "_", "t", "o", "_", "n", "e", "w", "_", "y", "e", "a", "r", "s", "_", "d", "a", "y">>

\* C9: after a call on a record with a valid date, every holiday of the year's
\* calendar has its column, named by the sanitized holiday name, holding the
\* day count from the record's date to the holiday: positive when the holiday
\* is ahead, negative when it has passed, 0 on the day itself, the difference
\* of the days within one month; for 2015-01-01 the column of New Year's Day
\* holds 0.
C9_SignedDayCount ==
    holPc = "returned" =>
        /\ \A hd \in DOMAIN holidays_dates :
              LET col == DaysToPrefix \o SanitizeHolidayName(holidays_dates[hd])
              IN /\ col \in DOMAIN df
                 /\ df[col] > 0 <=> DateBefore(user_date, hd)
                 /\ df[col] < 0 <=> DateBefore(hd, user_date)
                 /\ (hd[1] = user_date[1] /\ hd[2] = user_date[2]) =>
                        df[col] = hd[3] - user_date[3]
        /\ user_date = <<2015, 1, 1>> =>
              /\ DaysToNewYearsDay \in DOMAIN df
              /\ df[DaysToNewYearsDay] = 0

C9_Witness ==
    /\ holPc = "returned"
    /\ user_date = <<2015, 1, 1>>
    /\ df[DaysToNewYearsDay] = 0
    /\ \E c \in DOMAIN df : IsDaysToColumn(c) /\ df[c] > 0

(***************************************************************************)
(* feature_importances_: properties.                                       *)
(***************************************************************************)
\* C5, as stated: on a fitted model the property returns the vector, whatever
\* the declared feature count.
C5_FittedAlwaysReturns ==
    /\ xgbPc = "raised" => ~fitted
    /\ xgbPc = "returned" =>
          /\ Len(importances) = n_features
          /\ \A i \in 0..(n_features - 1) :
                importances[i + 1] =
                    IF FeatureKey(i) \in DOMAIN fscores THEN fscores[FeatureKey(i)] ELSE 0

\* C5, amended: when the property returns, the vector has length n_features
\* (the current value, also after the setter), position i holds the score
\* recorded under 'f<i>' and 0 when none is recorded; it raises instead of
\* returning exactly when the model is not fitted or a recorded key names an
\* index that is not below n_features.
C5_ImportancesVector ==
    /\ xgbPc = "returned" =>
          /\ Len(importances) = n_features
          /\ \A i \in 0..(n_features - 1) :
                importances[i + 1] =
                    IF FeatureKey(i) \in DOMAIN fscores THEN fscores[FeatureKey(i)] ELSE 0
          /\ \A i \in SampleIndices : FeatureKey(i) \in DOMAIN fscores => i < n_features
    /\ xgbPc = "raised" =>
          \/ ~fitted
          \/ \E i \in SampleIndices : FeatureKey(i) \in DOMAIN fscores /\ i >= n_features

C5_Witness ==
    /\ xgbPc = "returned"
    /\ n_features = 12
    /\ nDeclared = 3
    /\ FeatureKey(11) \in DOMAIN fscores
    /\ importances[12] = 2
    /\ importances[1] = 0
(***************************************************************************)
(* one_hot_encoding: properties.                                           *)
(***************************************************************************)
Listed == Range(categorical_features)

AllListedInInput == Listed \subseteq ColumnNames(input)

DistinctList ==
    \A i, j \in 1..Len(categorical_features) :
        i # j => categorical_features[i] # categorical_features[j]

\* the place of the column of that name in the input
InputColumnIndex(nm) == (CHOOSE k \in 1..Len(input.cols) : input.cols[k].name = nm)

\* the categories observed in the input's column of that name
Categories(nm) ==
    {input.cols[InputColumnIndex(nm)].values[r] : r \in 1..input.nrows} \ {NaN}

IndicatorNames(nm) == {nm \o <<"_">> \o v.s : v \in Categories(nm)}

ExpectedIndicatorNames == UNION {IndicatorNames(nm) : nm \in Listed}

\* the columns of the returned table made by iteration j
IndicatorsOf(j) == {k \in 1..Len(data.cols) : data.cols[k].iter = j}

\* C1, as stated: for a list of column names of the table, the returned
\* columns are the columns not listed plus one indicator <feature>_<category>
\* per category observed in each listed column, and no listed name is left.
C1_ColumnsAsStated ==
    (ohePc = "returned" /\ AllListedInInput) =>
        /\ ColumnNames(data) = (ColumnNames(input) \ Listed) \cup ExpectedIndicatorNames
        /\ \A j \in 1..Len(categorical_features) :
              Cardinality(IndicatorsOf(j)) = Cardinality(Categories(categorical_features[j]))
        /\ ColumnNames(data) \cap Listed = {}

\* C1, amended: for a list of distinct column names of the table, the
\* returned columns are the columns not listed plus one indicator
\* <feature>_<category> per category observed in each listed column; no
\* listed name is left unless it is also the indicator name of another listed
\* column.
C1_ColumnsOfDistinctList ==
    (ohePc = "returned" /\ AllListedInInput /\ DistinctList) =>
        /\ ColumnNames(data) = (ColumnNames(input) \ Listed) \cup ExpectedIndicatorNames
        /\ \A j \in 1..Len(categorical_features) :
              Cardinality(IndicatorsOf(j)) = Cardinality(Categories(categorical_features[j]))
        /\ ExpectedIndicatorNames \cap Listed = {} => ColumnNames(data) \cap Listed = {}

C1_Witness ==
    /\ ohePc = "returned"
    /\ categorical_features = <<NameA, NameAX>>
    /\ AllListedInInput
    /\ ColumnNames(data) =
          {NameB, <<"a", "_", "y">>, <<"a", "_", "x", "_", "x">>}

\* C2, as stated (for a list of distinct column names of the table): in every
\* row, exactly one indicator of each encoded column is 1 and the others 0.
C2_ExactlyOneInEveryRow ==
    (ohePc = "returned" /\ AllListedInInput /\ DistinctList) =>
        \A j \in 1..Len(categorical_features) : \A r \in 1..input.nrows :
            /\ Cardinality({k \in IndicatorsOf(j) : data.cols[k].values[r] = NumVal(1)}) = 1
            /\ \A k \in IndicatorsOf(j) : data.cols[k].values[r] \in {NumVal(0), NumVal(1)}

\* C2, amended: for a list of distinct column names of the table, in every
\* row whose value in the encoded column is not missing exactly one indicator
\* of that column is 1, the one of the row's category, and the others are 0;
\* in a row whose value is missing all indicators of the column are 0.
C2_ExactlyOneUnlessMissing ==
    (ohePc = "returned" /\ AllListedInInput /\ DistinctList) =>
        \A j \in 1..Len(categorical_features) : \A r \in 1..input.nrows :
            LET nm == categorical_features[j]
                v == input.cols[InputColumnIndex(nm)].values[r]
                set == {k \in IndicatorsOf(j) : data.cols[k].values[r] = NumVal(1)}
            IN /\ \A k \in IndicatorsOf(j) : data.cols[k].values[r] \in {NumVal(0), NumVal(1)}
               /\ v = NaN => set = {}
               /\ v # NaN =>
                     /\ Cardinality(set) = 1
                     /\ \A k \in set : data.cols[k].name = nm \o <<"_">> \o v.s

C2_Witness ==
    /\ ohePc = "returned"
    /\ categorical_features = <<NameA>>
    /\ input.nrows = 2
    /\ AllListedInInput
    /\ input.cols[InputColumnIndex(NameA)].values = <<ValY, NaN>>
    /\ \E k \in IndicatorsOf(1) : data.cols[k].values = <<NumVal(1), NumVal(0)>>

\* C3: at every iteration and at the return the table has the rows of the
\* input, and every column of the input that is not listed is in it with its
\* name and its values in the input's row order, also beside an indicator of
\* the same name.
C3_UnlistedColumnsKept ==
    ohePc \in {"loop", "returned"} =>
        /\ data.nrows = input.nrows
        /\ \A k \in 1..Len(data.cols) : Len(data.cols[k].values) = input.nrows
        /\ \A k \in 1..Len(input.cols) :
              input.cols[k].name \notin Listed =>
                  \E m \in 1..Len(data.cols) :
                      /\ data.cols[m].name = input.cols[k].name
                      /\ data.cols[m].values = input.cols[k].values

C3_Witness ==
    /\ ohePc = "returned"
    /\ categorical_features = <<NameA>>
    /\ input.nrows = 2
    /\ Cardinality({m \in 1..Len(data.cols) : data.cols[m].name = NameAX}) = 2
    /\ \E m \in 1..Len(data.cols) : data.cols[m].values = <<NaN, ValX>>

\* C4: an iteration whose name is not a column of the table at that moment
\* makes the call fail.
C4_AbsentColumnRaises ==
    [][(/\ ohePc = "loop"
        /\ feature_i < Len(categorical_features)
        /\ categorical_features[feature_i + 1] \notin ColumnNames(data))
       => ohePc' = "raised"]_vars

C4_Witness ==
    /\ ohePc = "raised"
    /\ categorical_features = <<NameA, NameA>>
    /\ feature_i = 1
    /\ NameA \in ColumnNames(input)

\* C10: after a call, returned or failed, with a list that is not empty, the
\* caller's table is the input without the first listed column, every other
\* column kept (the later listed ones too); with an empty list it is the
\* input and is the table returned.
C10_CallerLosesFirstColumnOnly ==
    ohePc \in {"returned", "raised"} =>
        IF categorical_features = <<>>
        THEN callerData = input /\ aliased /\ data = callerData
        ELSE /\ callerData.nrows = input.nrows
             /\ callerData.cols =
                   SelectSeq(input.cols, LAMBDA c : c.name # categorical_features[1])
             /\ feature_i >= 1 => ~aliased

C10_Witness ==
    /\ ohePc = "raised"
    /\ feature_i = 1
    /\ categorical_features = <<NameA, NameAX>>
    /\ ColumnNames(input) = {NameA, NameB}
    /\ ColumnNames(callerData) = {NameB}
====
